---- MODULE Spec2Model ----
(***************************************************************************)
(* A model of the XPath 1.0 evaluator of xml_dom_xpath: the NodeSet axis   *)
(* functions (evaluate/node_set.rs), the step filter (evaluate/filters.rs, *)
(* evaluate/mod.rs), evaluate_path and the string entry point with         *)
(* parser::read_str.  The DOM tree is the input: Init draws it from a      *)
(* bounded family of documents, and a client then calls the API on it.     *)
(***************************************************************************)
EXTENDS Integers, Sequences, FiniteSets, TLC

VARIABLES world, pc, call, walk

vars == <<world, pc, call, walk>>

(***************************************************************************)
(* Bounds of the model.                                                    *)
(***************************************************************************)
\* number of tree nodes (document/elements/leaves) of every input tree
MaxNodes == 4
\* longest context NodeSet handed to an axis function
MaxCtx == 2
\* longest multi-step LocationPath handed to evaluate_path
MaxSteps == 2
\* longest partial result the cyclic-tree walk is followed for
MaxWalk == 3

\* Option::None of the node accessors
None == 0

(***************************************************************************)
(* Sequence helpers.                                                       *)
(***************************************************************************)
RECURSIVE Concat(_)
\* Iterator::flatten over a sequence of sequences
Concat(ss) == IF ss = <<>> THEN <<>> ELSE Head(ss) \o Concat(Tail(ss))

RECURSIVE SelectIn(_, _)
\* the subsequence of s whose elements are in set K (order and multiplicity kept)
SelectIn(s, K) ==
  IF s = <<>> THEN <<>>
  ELSE (IF Head(s) \in K THEN <<Head(s)>> ELSE <<>>) \o SelectIn(Tail(s), K)

\* Iterator::rev
Reverse(s) == [i \in 1..Len(s) |-> s[Len(s) + 1 - i]]

Range(s) == {s[i] : i \in 1..Len(s)}

\* sequences over K of length at most n
SeqsUpTo(K, n) == UNION {[1..k -> K] : k \in 0..n}

RECURSIVE SortedSeq(_)
\* the elements of a finite set of integers as an ascending sequence
SortedSeq(K) ==
  IF K = {} THEN <<>>
  ELSE LET m == CHOOSE x \in K : \A y \in K : x <= y
       IN <<m>> \o SortedSeq(K \ {m})

(***************************************************************************)
(* The DOM tree (xml_dom::level2 RefNode), the evaluator's input.          *)
(* Tree nodes are 1..MaxNodes, node 1 is the root, par[n] is n's parent    *)
(* and a node's children are ordered by identity.  Attribute nodes are     *)
(* MaxNodes+1.. and hang off one element.                                  *)
(***************************************************************************)
Nodes == 1..MaxNodes

RECURSIVE IsAncestorIn(_, _, _)
IsAncestorIn(p, a, n) == p[n] # None /\ (p[n] = a \/ IsAncestorIn(p, a, p[n]))

\* every ordered tree over Nodes once: nodes are numbered as the parser
\* creates them, so a node's parent is the previous node or one of its ancestors
Shapes ==
  {p \in [Nodes -> {None} \cup Nodes] :
     /\ p[1] = None
     /\ \A n \in Nodes \ {1} : p[n] = n - 1 \/ IsAncestorIn(p, p[n], n - 1)}

\* the decorations of a tree: the root's type, the type of the last leaf, and
\* the attribute names (in declaration order) of the first element
Decorations ==
  { [rootKind |-> "Document", lastKind |-> "Element", attrNames |-> <<>>],
    [rootKind |-> "Element",  lastKind |-> "Element", attrNames |-> <<>>],
    [rootKind |-> "Document", lastKind |-> "Text",    attrNames |-> <<"id">>],
    [rootKind |-> "Element",  lastKind |-> "Comment", attrNames |-> <<"xmlns:p">>],
    [rootKind |-> "Document", lastKind |-> "ProcessingInstruction",
                                                     attrNames |-> <<>>] }

\* a decoration whose element declares two plain attributes around a
\* namespace
AttributeDecorations ==
  { [rootKind |-> "Element",  lastKind |-> "Element",
                                  attrNames |-> <<"id", "xmlns:p", "class">>] }

\* the shapes the attribute decorations are put on: a root and its children
AttributeShapes == {p \in Shapes : \A n \in Nodes \ {1} : p[n] = 1}

\* the orders in which a HashMap of n entries can be iterated
HashOrders(n) ==
  {h \in [1..n -> 1..n] : \A i, j \in 1..n : i # j => h[i] # h[j]}

\* a tree, its decorations, and the iteration order of the element's
\* attribute map (unspecified by HashMap, fixed while the map is unchanged)
Worlds ==
  UNION { { [par |-> w[1], rootKind |-> w[2].rootKind,
             lastKind |-> w[2].lastKind, attrNames |-> w[2].attrNames,
             hashOrder |-> h] : h \in HashOrders(Len(w[2].attrNames)) } :
          w \in (Shapes \X Decorations)
                  \cup (AttributeShapes \X AttributeDecorations) }

AttrNodes == {MaxNodes + i : i \in 1..Len(world.attrNames)}

AllNodes == Nodes \cup AttrNodes

\* the element carrying the attributes: the first Element of the tree
AttrElement == IF world.rootKind = "Element" THEN 1 ELSE 2

\* Node::node_type
node_type(n) ==
  IF n \in AttrNodes THEN "Attribute"
  ELSE IF n = 1 THEN world.rootKind
  ELSE IF n = MaxNodes THEN world.lastKind
  ELSE "Element"

\* Node::parent_node (an attribute has no parent)
parent_node(n) == IF n \in AttrNodes THEN None ELSE world.par[n]

\* Node::child_nodes
child_nodes(n) ==
  IF n \in AttrNodes THEN <<>>
  ELSE SortedSeq({c \in Nodes : world.par[c] = n})

\* Node::next_sibling
next_sibling(n) ==
  IF parent_node(n) = None THEN None
  ELSE LET later == {c \in Nodes : world.par[c] = world.par[n] /\ c > n}
       IN IF later = {} THEN None ELSE CHOOSE c \in later : \A d \in later : c <= d

\* Node::attributes as attribute_hash.iter() sees it: the (name, node)
\* pairs of the element's HashMap in the map's iteration order
attributes(n) ==
  IF n = AttrElement /\ n \in Nodes
  THEN [i \in 1..Len(world.attrNames) |->
          [name |-> world.attrNames[world.hashOrder[i]],
           node |-> MaxNodes + world.hashOrder[i]]]
  ELSE <<>>

\* Name::is_namespace_attribute: the prefix or the local name is "xmlns"
is_namespace_attribute(name) == name \in {"xmlns", "xmlns:p"}

\* Node::owner_document (None for the Document node itself and for nodes
\* of a tree that has no Document)
owner_document(n) ==
  IF world.rootKind = "Document" /\ n # 1 THEN 1 ELSE None

\* Node::node_name
node_name(n) ==
  IF n \in AttrNodes THEN world.attrNames[n - MaxNodes]
  ELSE CASE node_type(n) = "Document" -> "#document"
         [] node_type(n) = "Text" -> "#text"
         [] node_type(n) = "Comment" -> "#comment"
         [] node_type(n) = "ProcessingInstruction" -> "pi"
         [] OTHER -> IF n % 2 = 0 THEN "para" ELSE "div"

\* ProcessingInstruction::target
target(n) == node_name(n)

(***************************************************************************)
(* NodeSet: a sequence of nodes; the axis functions of impl NodeSet.       *)
(***************************************************************************)
RECURSIVE parents(_)
\* parents that stops one node early and leaves out the root
parents_without_root(next) ==
  IF next = None \/ parent_node(next) = None THEN <<>>
  ELSE <<next>> \o parents(parent_node(next))

\* the loop of fn parents in NodeSet::ancestor, from Some(n) on
parents(next) ==
  IF next = None THEN <<>> ELSE <<next>> \o parents(parent_node(next))

ancestor(S) == Concat([i \in 1..Len(S) |-> parents(parent_node(S[i]))])

\* ancestor_or_self that forgets to push the context node
ancestor_or_self_without_self(S) == ancestor(S)

ancestor_or_self(S) ==
  Concat([i \in 1..Len(S) |-> <<S[i]>> \o parents(parent_node(S[i]))])

RECURSIVE AttrsOf(_, _)
\* the inner filter_map over attributes(): keep the nodes whose name's
\* is_namespace_attribute() equals ns
AttrsOf(pairs, ns) ==
  IF pairs = <<>> THEN <<>>
  ELSE (IF is_namespace_attribute(Head(pairs).name) = ns
        THEN <<Head(pairs).node>> ELSE <<>>) \o AttrsOf(Tail(pairs), ns)

\* attribute that forgets to leave out the namespace declarations
attribute_with_namespaces(S) ==
  Concat([i \in 1..Len(S) |->
            IF node_type(S[i]) = "Element"
            THEN [k \in 1..Len(attributes(S[i])) |-> attributes(S[i])[k].node]
            ELSE <<>>])

attribute(S) ==
  Concat([i \in 1..Len(S) |->
            IF node_type(S[i]) = "Element" THEN AttrsOf(attributes(S[i]), FALSE)
            ELSE <<>>])

child(S) == Concat([i \in 1..Len(S) |-> child_nodes(S[i])])

\* self.iter().cloned().collect()
\* s without the later occurrences of a node it holds more than once
Distinct(s) ==
  LET first == SortedSeq({i \in 1..Len(s) : \A j \in 1..(i - 1) : s[j] # s[i]})
  IN [k \in 1..Len(first) |-> s[first[k]]]

\* self_node that returns a set: every node once
self_node_distinct(S) == Distinct(S)

self_node(S) == [i \in 1..Len(S) |-> S[i]]

RECURSIVE descendant(_)
\* descendant without its recursive calls: the children only
descendant_children_only(S) == child(S)

descendant(S) ==
  LET descendants == child(S)
      next == Concat([i \in 1..Len(descendants) |-> descendant(<<descendants[i]>>)])
  IN descendants \o next

descendant_or_self(S) ==
  LET descendants == self_node(S)
      next == Concat([i \in 1..Len(descendants) |-> descendant(<<descendants[i]>>)])
  IN descendants \o next

RECURSIVE OptSeq(_)
\* filter_map over Option values: the Some values in order
OptSeq(s) ==
  IF s = <<>> THEN <<>>
  ELSE (IF Head(s) = None THEN <<>> ELSE <<Head(s)>>) \o OptSeq(Tail(s))

document(S) == OptSeq([i \in 1..Len(S) |-> owner_document(S[i])])

RECURSIVE siblings(_)
\* the loop of fn siblings in NodeSet::following_sibling, from Some(n) on
siblings(next) ==
  IF next = None THEN <<>> ELSE <<next>> \o siblings(next_sibling(next))

\* following_sibling that takes the next sibling only
following_sibling_next_only(S) ==
  OptSeq([i \in 1..Len(S) |-> next_sibling(S[i])])

following_sibling(S) == Concat([i \in 1..Len(S) |-> siblings(next_sibling(S[i]))])

following(S) ==
  LET fs == following_sibling(S)
  IN Concat([i \in 1..Len(fs) |-> descendant_or_self(<<fs[i]>>)])

namespace(S) ==
  Concat([i \in 1..Len(S) |->
            IF node_type(S[i]) = "Element" THEN AttrsOf(attributes(S[i]), TRUE)
            ELSE <<>>])

\* parent that hands back the node itself when it has no parent
parent_or_self(S) ==
  [i \in 1..Len(S) |->
     IF parent_node(S[i]) = None THEN S[i] ELSE parent_node(S[i])]

\* parent that returns every parent once
parent_distinct(S) == Distinct(OptSeq([i \in 1..Len(S) |-> parent_node(S[i])]))

parent(S) == OptSeq([i \in 1..Len(S) |-> parent_node(S[i])])

RECURSIVE TakeUntil(_, _)
\* the while loop of preceding_sibling: push children until child == node
TakeUntil(kids, node) ==
  IF kids = <<>> \/ Head(kids) = node THEN <<>>
  ELSE <<Head(kids)>> \o TakeUntil(Tail(kids), node)

\* preceding_sibling that goes on to the node itself
preceding_sibling_and_self(S) ==
  Concat([i \in 1..Len(S) |->
            IF parent_node(S[i]) = None THEN <<>>
            ELSE TakeUntil(child_nodes(parent_node(S[i])), S[i]) \o <<S[i]>>])

preceding_sibling(S) ==
  Concat([i \in 1..Len(S) |->
            IF parent_node(S[i]) = None THEN <<>>
            ELSE TakeUntil(child_nodes(parent_node(S[i])), S[i])])

RECURSIVE reverse_descendant(_)
reverse_descendant(S) ==
  LET children == Reverse(child(S))
      next == Concat([i \in 1..Len(children) |-> reverse_descendant(<<children[i]>>)])
  IN children \o next

preceding(S) ==
  LET previous == Reverse(preceding_sibling(S))
      next == Concat([i \in 1..Len(previous) |-> reverse_descendant(<<previous[i]>>)])
  IN previous \o next

(***************************************************************************)
(* The expression model (model/select.rs, model/step.rs, model/path.rs).   *)
(* A NodeTest is [kind, arg]: arg holds the name of Named or the optional  *)
(* target of ProcessingInstruction.  A Step is [axis, test, preds] and a   *)
(* LocationPath is [root, steps].                                          *)
(***************************************************************************)
AxisNames ==
  {"ancestor", "ancestor_or_self", "attribute", "child", "descendant",
   "descendant_or_self", "following", "following_sibling", "namespace",
   "parent", "preceding", "preceding_sibling", "self_node"}

\* the names a Named node test is built with; "" is no XML name
TestNames == {"para", "div", ""}

NodeTests ==
  {[kind |-> k, arg |-> <<>>] :
       k \in {"All", "Comment", "Text", "ProcessingInstruction", "Node"}}
  \cup {[kind |-> "Named", arg |-> <<nm>>] : nm \in TestNames}
  \cup {[kind |-> "ProcessingInstruction", arg |-> <<t>>] : t \in {"pi", "xsl"}}

\* Step::new
NewStep(axis, test) == [axis |-> axis, test |-> test, preds |-> <<>>]

\* Step::append: one more predicate (the evaluator never looks inside it)
AppendPredicate(step, predicate) ==
  [step EXCEPT !.preds = Append(@, predicate)]

EmptyPath == [root |-> FALSE, steps |-> <<>>]

(***************************************************************************)
(* Results: Ok(NodeSet), Err(error) or a panic that aborts the call.       *)
(***************************************************************************)
\* err is the path of error variants, e.g. <<"Parse", "EmptyString">>
Ok(S) == [tag |-> "Ok", nodes |-> S, err |-> <<>>]

Err(e) == [tag |-> "Err", nodes |-> <<>>, err |-> e]

Panic == [tag |-> "Panic", nodes |-> <<>>, err |-> <<>>]

(***************************************************************************)
(* The filter pipeline (evaluate/filters.rs) and evaluate/mod.rs.          *)
(***************************************************************************)
\* Name::from_str(name) is Ok
IsValidName(name) == name # ""

\* NodeTestFilter::apply reaches Name::from_str(&name).unwrap() with a bad name
NodeTestUnwrapFails(principal_type, test, n) ==
  /\ test.kind = "Named"
  /\ node_type(n) = principal_type
  /\ ~IsValidName(test.arg[1])

\* NodeTestFilter::apply that holds node() to the principal node type too
NodeTestFilter_apply_principal_only(principal_type, test, n) ==
  CASE test.kind = "All" -> node_type(n) = principal_type
    [] test.kind = "Named" ->
         node_type(n) = principal_type /\ node_name(n) = test.arg[1]
    [] test.kind = "Comment" -> node_type(n) = "Comment"
    [] test.kind = "Text" -> node_type(n) = "Text"
    [] test.kind = "ProcessingInstruction" /\ test.arg = <<>> ->
         node_type(n) = "ProcessingInstruction"
    [] test.kind = "ProcessingInstruction" /\ test.arg # <<>> ->
         node_type(n) = "ProcessingInstruction" /\ target(n) = test.arg[1]
    [] test.kind = "Node" -> node_type(n) = principal_type

\* NodeTestFilter::apply, where it returns
NodeTestFilter_apply(principal_type, test, n) ==
  CASE test.kind = "All" -> node_type(n) = principal_type
    [] test.kind = "Named" ->
         node_type(n) = principal_type /\ node_name(n) = test.arg[1]
    [] test.kind = "Comment" -> node_type(n) = "Comment"
    [] test.kind = "Text" -> node_type(n) = "Text"
    [] test.kind = "ProcessingInstruction" /\ test.arg = <<>> ->
         node_type(n) = "ProcessingInstruction"
    [] test.kind = "ProcessingInstruction" /\ test.arg # <<>> ->
         node_type(n) = "ProcessingInstruction" /\ target(n) = test.arg[1]
    [] test.kind = "Node" -> TRUE

\* a principal node type that is Element on every axis
PrincipalType_element(axis) == "Element"

\* the principal node type filter_nodes gives the NodeTestFilter
PrincipalType(axis) == IF axis = "attribute" THEN "Attribute" ELSE "Element"

\* filters.iter().all(..) on one node aborts: the node test unwraps a bad
\* name, or the node passes the node test and PredicateFilter::apply, which
\* is unimplemented!(), is called for the first predicate
FilterAborts(step, n) ==
  \/ NodeTestUnwrapFails(PrincipalType(step.axis), step.test, n)
  \/ /\ NodeTestFilter_apply(PrincipalType(step.axis), step.test, n)
     /\ step.preds # <<>>

\* filter_nodes that evaluates the predicates before it looks at the nodes
filter_nodes_eager_predicates(S, step) ==
  IF step.preds # <<>> \/ \E i \in 1..Len(S) : FilterAborts(step, S[i])
  THEN Panic
  ELSE Ok(SelectIn(S, {n \in Range(S) :
                         NodeTestFilter_apply(PrincipalType(step.axis), step.test, n)}))

filter_nodes(S, step) ==
  IF \E i \in 1..Len(S) : FilterAborts(step, S[i]) THEN Panic
  ELSE Ok(SelectIn(S, {n \in Range(S) :
                         NodeTestFilter_apply(PrincipalType(step.axis), step.test, n)}))

\* the axis function of NodeSet named a, applied to S
Axis(a, S) ==
  CASE a = "ancestor" -> ancestor(S)
    [] a = "ancestor_or_self" -> ancestor_or_self(S)
    [] a = "attribute" -> attribute(S)
    [] a = "child" -> child(S)
    [] a = "descendant" -> descendant(S)
    [] a = "descendant_or_self" -> descendant_or_self(S)
    [] a = "following" -> following(S)
    [] a = "following_sibling" -> following_sibling(S)
    [] a = "namespace" -> namespace(S)
    [] a = "parent" -> parent(S)
    [] a = "preceding" -> preceding(S)
    [] a = "preceding_sibling" -> preceding_sibling(S)
    [] a = "self_node" -> self_node(S)
    [] a = "document" -> document(S)

select_nodes(S, step) == Axis(step.axis, S)

RECURSIVE EvalSteps(_, _, _)
\* the for loop of evaluate_path over the remaining steps
EvalSteps(node_set, next_set, steps) ==
  IF steps = <<>> THEN Ok(next_set)
  ELSE LET r == filter_nodes(select_nodes(node_set, Head(steps)), Head(steps))
       IN IF r.tag = "Panic" THEN Panic
          ELSE EvalSteps(node_set, r.nodes, Tail(steps))

\* evaluate::evaluate_path
evaluate_path(node_set, xpath) ==
  EvalSteps(node_set,
            IF xpath.root THEN document(node_set) ELSE node_set,
            xpath.steps)

(***************************************************************************)
(* The inputs of evaluate_path.                                            *)
(***************************************************************************)
\* longest context NodeSet handed to evaluate_path
MaxEvalCtx == 1
\* most predicates on a step
MaxPreds == 1

\* the steps the multi-step paths are built from: child::node(), child::*,
\* parent::node(), descendant::node()
ChainSteps ==
  { NewStep("child", [kind |-> "Node", arg |-> <<>>]),
    NewStep("child", [kind |-> "All", arg |-> <<>>]),
    NewStep("parent", [kind |-> "Node", arg |-> <<>>]),
    NewStep("descendant", [kind |-> "Node", arg |-> <<>>]) }

RECURSIVE WithPredicates(_, _)
WithPredicates(step, k) ==
  IF k = 0 THEN step ELSE AppendPredicate(WithPredicates(step, k - 1), "position() = 1")

Paths ==
  \* one step: every axis with every node test
  {[root |-> r, steps |-> <<NewStep(a, t)>>] :
       r \in BOOLEAN, a \in AxisNames, t \in NodeTests}
  \* several steps
  \cup {[root |-> r, steps |-> ss] :
          r \in BOOLEAN, ss \in SeqsUpTo(ChainSteps, MaxSteps)}
  \* one step carrying predicates
  \cup {[root |-> r, steps |-> <<WithPredicates(s, k)>>] :
          r \in BOOLEAN, s \in ChainSteps, k \in 1..MaxPreds}

(***************************************************************************)
(* The string entry point: parser::read_str and xpath1::evaluate_path.     *)
(***************************************************************************)
\* the path strings the client passes
XPathStrings == {"", "child::para", "child::*", "/", "child::*/child::para", "]"}

\* XPathParser::parse(Rule::LocationPath, s) is Ok: the strings the parser's
\* tests assert to parse; "]" starts no LocationPath of the grammar
GrammarAccepts(s) == s \in {"child::para", "child::*", "/", "child::*/child::para"}

ParseOk(path) == [tag |-> "Ok", path |-> path, err |-> <<>>]

ParseErr(e) == [tag |-> "Err", path |-> EmptyPath, err |-> e]

\* parser::read_str: the parsed pairs are dropped and the function ends
\* with Err(ParseError::EmptyString)
read_str(xpath_str) ==
  IF xpath_str = "" THEN ParseErr(<<"EmptyString">>)
  ELSE IF ~GrammarAccepts(xpath_str) THEN ParseErr(<<"Parser">>)
  ELSE ParseErr(<<"EmptyString">>)

\* xpath1::evaluate_path that evaluates the empty path when parsing fails
xpath1_evaluate_path_unparsed(xpath, context_nodes) ==
  LET parsed == read_str(xpath)
      r == evaluate_path(self_node(context_nodes), parsed.path)
  IN IF r.tag = "Err" THEN Err(<<"Evaluate">> \o r.err) ELSE r

\* xpath1::evaluate_path
xpath1_evaluate_path(xpath, context_nodes) ==
  LET parsed == read_str(xpath)
  IN IF parsed.tag = "Err" THEN Err(<<"Parse">> \o parsed.err)
     ELSE LET r == evaluate_path(self_node(context_nodes), parsed.path)
          IN IF r.tag = "Err" THEN Err(<<"Evaluate">> \o r.err) ELSE r

(***************************************************************************)
(* The client: calls one API function on the tree, then takes the result.  *)
(***************************************************************************)
NoCall == [op |-> "none", ctx |-> <<>>, path |-> EmptyPath, xpath |-> "", out |-> Ok(<<>>)]

NoWalk == [axis |-> "none", next |-> None, result |-> <<>>, stack |-> <<>>]

Init ==
  /\ world \in Worlds
  /\ pc = "idle"
  /\ call = NoCall
  /\ walk = NoWalk

\* an axis call that detaches its first context node from the tree
CallAxis_detaching ==
  /\ pc = "idle"
  /\ \E a \in AxisNames \cup {"document"}, S \in SeqsUpTo(AllNodes, MaxCtx) :
       /\ call' = [op |-> a, ctx |-> S, path |-> EmptyPath, xpath |-> "",
                   out |-> Ok(Axis(a, S))]
       /\ world' = IF S # <<>> /\ S[1] \in Nodes
                   THEN [world EXCEPT !.par[S[1]] = None] ELSE world
  /\ pc' = "returned"
  /\ UNCHANGED walk

\* a call of one axis function of NodeSet on a context NodeSet
CallAxis ==
  /\ pc = "idle"
  /\ \E a \in AxisNames \cup {"document"}, S \in SeqsUpTo(AllNodes, MaxCtx) :
       call' = [op |-> a, ctx |-> S, path |-> EmptyPath, xpath |-> "",
                out |-> Ok(Axis(a, S))]
  /\ pc' = "returned"
  /\ UNCHANGED <<world, walk>>

\* a call of evaluate::evaluate_path
CallEvaluatePath ==
  /\ pc = "idle"
  /\ \E S \in SeqsUpTo(AllNodes, MaxEvalCtx), xpath \in Paths :
       call' = [op |-> "evaluate_path", ctx |-> S, path |-> xpath, xpath |-> "",
                out |-> evaluate_path(S, xpath)]
  /\ pc' = "returned"
  /\ UNCHANGED <<world, walk>>

\* a call of xpath1::evaluate_path with a path string
CallXPath ==
  /\ pc = "idle"
  /\ \E S \in SeqsUpTo(AllNodes, MaxEvalCtx), s \in XPathStrings :
       call' = [op |-> "xpath1_evaluate_path", ctx |-> S, path |-> EmptyPath,
                xpath |-> s, out |-> xpath1_evaluate_path(s, S)]
  /\ pc' = "returned"
  /\ UNCHANGED <<world, walk>>

\* the client drops the result and is ready for the next call
Return ==
  /\ pc = "returned"
  /\ pc' = "idle"
  /\ call' = NoCall
  /\ UNCHANGED <<world, walk>>

Next == CallAxis \/ CallEvaluatePath \/ CallXPath \/ Return

Spec == Init /\ [][Next]_vars

(***************************************************************************)
(* The axis walks step by step, on trees whose parent pointers may form a  *)
(* cycle: the while loop of fn parents (ancestor, ancestor_or_self) and    *)
(* the recursion of descendant (descendant, descendant_or_self).           *)
(***************************************************************************)
\* any parent-pointer structure over Nodes, cyclic ones included
LinkedWorlds ==
  { [par |-> p, rootKind |-> "Element", lastKind |-> "Element", attrNames |-> <<>>,
     hashOrder |-> <<>>] :
      p \in [Nodes -> {None} \cup Nodes] }

InitWalk ==
  /\ world \in LinkedWorlds
  /\ pc = "idle"
  /\ call = NoCall
  /\ walk = NoWalk

\* ancestor()/ancestor_or_self() on [n]: result is new (holding n for
\* ancestor_or_self) and next = node.parent_node()
StartParents ==
  /\ pc = "idle"
  /\ \E a \in {"ancestor", "ancestor_or_self"}, n \in Nodes :
       /\ walk' = [axis |-> a, next |-> parent_node(n),
                   result |-> IF a = "ancestor" THEN <<>> ELSE <<n>>,
                   stack |-> <<>>]
       /\ call' = [NoCall EXCEPT !.op = a, !.ctx = <<n>>]
  /\ pc' = "walking"
  /\ UNCHANGED world

\* one turn of `while let Some(node) = next`
StepParents ==
  /\ pc = "walking"
  /\ walk.axis \in {"ancestor", "ancestor_or_self"}
  /\ walk.next # None
  /\ Len(walk.result) < MaxWalk
  /\ walk' = [walk EXCEPT !.result = Append(@, walk.next),
                          !.next = parent_node(walk.next)]
  /\ UNCHANGED <<world, pc, call>>

\* next is None: the loop ends and the result is returned
EndParents ==
  /\ pc = "walking"
  /\ walk.axis \in {"ancestor", "ancestor_or_self"}
  /\ walk.next = None
  /\ call' = [call EXCEPT !.out = Ok(walk.result)]
  /\ pc' = "returned"
  /\ walk' = NoWalk
  /\ UNCHANGED world

\* descendant()/descendant_or_self() on [n]: the first call descendant([n]);
\* a frame of the stack is the node of an active call and the index of the
\* child whose recursive call comes next
StartDescendant ==
  /\ pc = "idle"
  /\ \E a \in {"descendant", "descendant_or_self"}, n \in Nodes :
       /\ walk' = [axis |-> a, next |-> None, result |-> <<>>,
                   stack |-> <<[node |-> n, idx |-> 1]>>]
       /\ call' = [NoCall EXCEPT !.op = a, !.ctx = <<n>>]
  /\ pc' = "walking"
  /\ UNCHANGED world

\* the top call recurses into its next child
EnterDescendant ==
  /\ pc = "walking"
  /\ walk.stack # <<>>
  /\ LET top == walk.stack[Len(walk.stack)]
         kids == child_nodes(top.node)
     IN /\ top.idx <= Len(kids)
        /\ Len(walk.stack) < MaxWalk
        /\ walk' = [walk EXCEPT !.stack = Append(@, [node |-> kids[top.idx], idx |-> 1])]
  /\ UNCHANGED <<world, pc, call>>

\* the top call has recursed into all its children and returns to its caller
LeaveDescendant ==
  /\ pc = "walking"
  /\ Len(walk.stack) > 1
  /\ LET d == Len(walk.stack)
         top == walk.stack[d]
     IN /\ top.idx > Len(child_nodes(top.node))
        /\ walk' = [walk EXCEPT !.stack =
                      [i \in 1..(d - 1) |->
                         IF i = d - 1 THEN [@[i] EXCEPT !.idx = @ + 1] ELSE @[i]]]
  /\ UNCHANGED <<world, pc, call>>

\* the first call returns: the walk met no cycle, the result is the axis
EndDescendant ==
  /\ pc = "walking"
  /\ Len(walk.stack) = 1
  /\ walk.stack[1].idx > Len(child_nodes(walk.stack[1].node))
  /\ call' = [call EXCEPT !.out = Ok(Axis(walk.axis, call.ctx))]
  /\ pc' = "returned"
  /\ walk' = NoWalk
  /\ UNCHANGED world

NextWalk ==
  \/ StartParents \/ StepParents \/ EndParents
  \/ StartDescendant \/ EnterDescendant \/ LeaveDescendant \/ EndDescendant
  \/ Return

SpecWalk == InitWalk /\ [][NextWalk]_vars

(***************************************************************************)
(* The loops and recursions of the axis functions and of evaluate_path in  *)
(* small steps on the trees of Worlds: nothing caps them, a call ends      *)
(* when its loop condition fails or its recursion returns.                 *)
(***************************************************************************)
ChaseAxes == {"ancestor", "ancestor_or_self", "following_sibling"}

RecursionAxes == {"descendant", "descendant_or_self", "following", "preceding"}

\* the pointer a `while let Some(..) = next` loop follows from node n
Pointer(axis, n) ==
  IF axis = "following_sibling" THEN next_sibling(n) ELSE parent_node(n)

\* the call callee([h]) as a stack frame: own is the list the function
\* starts from, each the function it maps over that list, todo the part of
\* the list not yet mapped, next what the mapped calls have returned
Frame(callee, h) ==
  CASE callee = "descendant" ->
         [each |-> "descendant", todo |-> child_nodes(h),
          own |-> child_nodes(h), next |-> <<>>]
    [] callee = "descendant_or_self" ->
         [each |-> "descendant", todo |-> <<h>>, own |-> <<h>>, next |-> <<>>]
    [] callee = "reverse_descendant" ->
         [each |-> "reverse_descendant", todo |-> Reverse(child_nodes(h)),
          own |-> Reverse(child_nodes(h)), next |-> <<>>]

\* the first call of a recursive axis on [n]
FirstFrame(axis, n) ==
  CASE axis = "following" ->
         [each |-> "descendant_or_self", todo |-> following_sibling(<<n>>),
          own |-> <<>>, next |-> <<>>]
    [] axis = "preceding" ->
         [each |-> "reverse_descendant",
          todo |-> Reverse(preceding_sibling(<<n>>)),
          own |-> Reverse(preceding_sibling(<<n>>)), next |-> <<>>]
    [] OTHER -> Frame(axis, n)

\* what a call hands back: its list with the flattened results appended
Returned_from(frame) == frame.own \o frame.next

\* the frames of evaluate_path below the axis function it has called
Base == IF walk.axis = "evaluate_path" THEN 1 ELSE 0

\* the paths walked step by step: descendant::node() and preceding::node()
TreePaths ==
  { [root |-> FALSE, steps |-> s] :
      s \in SeqsUpTo({NewStep("descendant", [kind |-> "Node", arg |-> <<>>]),
                      NewStep("preceding", [kind |-> "Node", arg |-> <<>>])},
                     MaxSteps) }

InitTree ==
  /\ world \in Worlds
  /\ pc = "idle"
  /\ call = NoCall
  /\ walk = NoWalk

\* ancestor, ancestor_or_self or following_sibling on [n]: the loop
\* variable next is set from the node
StartChase ==
  /\ pc = "idle"
  /\ \E a \in ChaseAxes, n \in AllNodes :
       /\ walk' = [axis |-> a, next |-> Pointer(a, n),
                   result |-> IF a = "ancestor_or_self" THEN <<n>> ELSE <<>>,
                   stack |-> <<>>]
       /\ call' = [NoCall EXCEPT !.op = a, !.ctx = <<n>>]
  /\ pc' = "walking"
  /\ UNCHANGED world

\* one turn of `while let Some(node) = next`
StepChase ==
  /\ pc = "walking"
  /\ walk.axis \in ChaseAxes
  /\ walk.next # None
  /\ walk' = [walk EXCEPT !.result = Append(@, walk.next),
                          !.next = Pointer(walk.axis, walk.next)]
  /\ UNCHANGED <<world, pc, call>>

\* next is None: the loop ends and the result is returned
EndChase ==
  /\ pc = "walking"
  /\ walk.axis \in ChaseAxes
  /\ walk.next = None
  /\ call' = [call EXCEPT !.out = Ok(walk.result)]
  /\ pc' = "returned"
  /\ walk' = NoWalk
  /\ UNCHANGED world

\* descendant, descendant_or_self, following or preceding on [n]
StartRecursion ==
  /\ pc = "idle"
  /\ \E a \in RecursionAxes, n \in AllNodes :
       /\ walk' = [axis |-> a, next |-> None, result |-> <<>>,
                   stack |-> <<FirstFrame(a, n)>>]
       /\ call' = [NoCall EXCEPT !.op = a, !.ctx = <<n>>]
  /\ pc' = "walking"
  /\ UNCHANGED world

\* the top call takes the next node of its list and calls into it
EnterRecursion ==
  /\ pc = "walking"
  /\ walk.axis \in RecursionAxes \cup {"evaluate_path"}
  /\ Len(walk.stack) > Base
  /\ LET d == Len(walk.stack)
         top == walk.stack[d]
     IN /\ top.todo # <<>>
        /\ walk' = [walk EXCEPT !.stack =
                      Append([@ EXCEPT ![d].todo = Tail(top.todo)],
                             Frame(top.each, Head(top.todo)))]
  /\ UNCHANGED <<world, pc, call>>

\* the top call has gone through its list and returns to its caller, which
\* appends what it gets
LeaveRecursion ==
  /\ pc = "walking"
  /\ walk.axis \in RecursionAxes \cup {"evaluate_path"}
  /\ Len(walk.stack) > Base + 1
  /\ LET d == Len(walk.stack)
         top == walk.stack[d]
     IN /\ top.todo = <<>>
        /\ walk' = [walk EXCEPT !.stack =
                      [SubSeq(@, 1, d - 1) EXCEPT
                         ![d - 1].next = @ \o Returned_from(top)]]
  /\ UNCHANGED <<world, pc, call>>

\* the first call returns
EndRecursion ==
  /\ pc = "walking"
  /\ walk.axis \in RecursionAxes
  /\ Len(walk.stack) = 1
  /\ walk.stack[1].todo = <<>>
  /\ call' = [call EXCEPT !.out = Ok(Returned_from(walk.stack[1]))]
  /\ pc' = "returned"
  /\ walk' = NoWalk
  /\ UNCHANGED world

\* evaluate_path on [n]: next_set is set, the for loop has all steps left
StartEvaluate ==
  /\ pc = "idle"
  /\ \E n \in Nodes, xpath \in TreePaths :
       /\ walk' = [axis |-> "evaluate_path", next |-> None,
                   result |-> IF xpath.root THEN document(<<n>>) ELSE <<n>>,
                   stack |-> <<[each |-> "select_nodes", todo |-> xpath.steps,
                                own |-> <<>>, next |-> <<>>]>>]
       /\ call' = [NoCall EXCEPT !.op = "evaluate_path", !.ctx = <<n>>,
                                 !.path = xpath]
  /\ pc' = "walking"
  /\ UNCHANGED world

\* a turn of `for step in xpath.steps()` begins: select_nodes calls the
\* axis function of the step on node_set
StepEvaluate ==
  /\ pc = "walking"
  /\ walk.axis = "evaluate_path"
  /\ Len(walk.stack) = 1
  /\ walk.stack[1].todo # <<>>
  /\ walk' = [walk EXCEPT !.stack =
                Append(@, FirstFrame(Head(walk.stack[1].todo).axis,
                                     call.ctx[1]))]
  /\ UNCHANGED <<world, pc, call>>

\* a for loop that stays on the step it has just evaluated
FilterEvaluate_same_step ==
  /\ pc = "walking"
  /\ walk.axis = "evaluate_path"
  /\ Len(walk.stack) = 2
  /\ walk.stack[2].todo = <<>>
  /\ LET step == Head(walk.stack[1].todo)
         r == filter_nodes(Returned_from(walk.stack[2]), step)
     IN walk' = [walk EXCEPT !.result = r.nodes,
                             !.stack = <<walk.stack[1]>>]
  /\ UNCHANGED <<world, pc, call>>

\* the axis function has returned: filter_nodes makes next_set of what it
\* returned and the turn ends
FilterEvaluate ==
  /\ pc = "walking"
  /\ walk.axis = "evaluate_path"
  /\ Len(walk.stack) = 2
  /\ walk.stack[2].todo = <<>>
  /\ LET step == Head(walk.stack[1].todo)
         r == filter_nodes(Returned_from(walk.stack[2]), step)
     IN walk' = [walk EXCEPT !.result = r.nodes,
                             !.stack = <<[walk.stack[1] EXCEPT
                                            !.todo = Tail(@)]>>]
  /\ UNCHANGED <<world, pc, call>>

\* no step is left: Ok(next_set)
EndEvaluate ==
  /\ pc = "walking"
  /\ walk.axis = "evaluate_path"
  /\ Len(walk.stack) = 1
  /\ walk.stack[1].todo = <<>>
  /\ call' = [call EXCEPT !.out = Ok(walk.result)]
  /\ pc' = "returned"
  /\ walk' = NoWalk
  /\ UNCHANGED world

\* a started call goes on
Running ==
  \/ StepChase \/ EndChase
  \/ EnterRecursion \/ LeaveRecursion \/ EndRecursion
  \/ FilterEvaluate \/ EndEvaluate

\* the states in which StepEvaluate can be taken (its guard)
StepEvaluate_enabled ==
  /\ pc = "walking"
  /\ walk.axis = "evaluate_path"
  /\ Len(walk.stack) = 1
  /\ walk.stack[1].todo # <<>>

\* WF_vars(StepEvaluate), with ENABLED <<StepEvaluate>>_vars written as the
\* guard of the action: the step it pushes a frame in always changes walk
StepEvaluate_fair ==
  []<>(~StepEvaluate_enabled) \/ []<><<StepEvaluate>>_vars

NextTree ==
  \/ StartChase \/ StepChase \/ EndChase
  \/ StartRecursion \/ EnterRecursion \/ LeaveRecursion \/ EndRecursion
  \/ StartEvaluate \/ StepEvaluate \/ FilterEvaluate \/ EndEvaluate
  \/ Return

\* the thread that runs a call is never stopped for good: a call is a plain
\* function call on the caller's thread, which the scheduler keeps running
SpecTree ==
  InitTree /\ [][NextTree]_vars /\ WF_vars(Running) /\ StepEvaluate_fair

(***************************************************************************)
(* Rendering a step with a predicate: Display (to_string) and              *)
(* ToAbbrString (to_abbr_string).  A rendered string is the sequence of    *)
(* its pieces; an empty piece leaves nothing.                              *)
(***************************************************************************)
\* largest number literal in a predicate
MaxNumber == 2

Piece(s) == IF s = "" THEN <<>> ELSE <<s>>

\* a Predicate: op is the variant, name the function name or the number as
\* format!("{}", n) prints it, sel the Select of a select terminal, kids
\* the arguments or the left and right operands
NoSelect == [axis |-> "self_node", test |-> [kind |-> "Node", arg |-> <<>>]]

\* Predicate::function
PredicateFunction(named) ==
  [op |-> "Function", name |-> named, sel |-> NoSelect, kids |-> <<>>]

\* Predicate::Terminal(Terminal::Number(n))
PredicateNumber(n) ==
  [op |-> "Number", name |-> ToString(n), sel |-> NoSelect, kids |-> <<>>]

\* Predicate::select
PredicateSelect(axis, node_test) ==
  [op |-> "Select", name |-> "", sel |-> [axis |-> axis, test |-> node_test],
   kids |-> <<>>]

\* predicate_fn!: Predicate::eq, gt, subtract, and, or
PredicateExpr(expr_t, left, right) ==
  [op |-> expr_t, name |-> "", sel |-> NoSelect, kids |-> <<left, right>>]

\* Display for AxisSpecifier
AxisSpecifier_fmt(axis) ==
  CASE axis = "ancestor" -> "ancestor::"
    [] axis = "ancestor_or_self" -> "ancestor-or-self::"
    [] axis = "attribute" -> "attribute::"
    [] axis = "child" -> "child::"
    [] axis = "descendant" -> "descendant::"
    [] axis = "descendant_or_self" -> "descendant-or-self::"
    [] axis = "following" -> "following::"
    [] axis = "following_sibling" -> "following-sibling::"
    [] axis = "namespace" -> "namespace::"
    [] axis = "parent" -> "parent::"
    [] axis = "preceding" -> "preceding::"
    [] axis = "preceding_sibling" -> "preceding-sibling::"
    [] axis = "self_node" -> "self::"

\* ToAbbrString for AxisSpecifier
AxisSpecifier_to_abbr_string(axis) ==
  CASE axis = "attribute" -> "@"
    [] axis = "child" -> ""
    [] OTHER -> AxisSpecifier_fmt(axis)

\* Display for NodeTest
NodeTest_fmt(test) ==
  CASE test.kind = "All" -> <<"*">>
    [] test.kind = "Named" -> Piece(test.arg[1])
    [] test.kind = "Comment" -> <<"comment()">>
    [] test.kind = "Text" -> <<"text()">>
    [] test.kind = "ProcessingInstruction" /\ test.arg = <<>> ->
         <<"processing-instruction()">>
    [] test.kind = "ProcessingInstruction" /\ test.arg # <<>> ->
         <<"processing-instruction(", test.arg[1], ")">>
    [] test.kind = "Node" -> <<"node()">>

\* Display for Select
Select_fmt(select) ==
  Piece(AxisSpecifier_fmt(select.axis)) \o NodeTest_fmt(select.test)

\* ToAbbrString for Select
Select_to_abbr_string(select) ==
  IF select.axis = "self_node" /\ select.test.kind = "Node" THEN <<".">>
  ELSE IF select.axis = "parent" /\ select.test.kind = "Node" THEN <<"..">>
  ELSE IF select.axis = "descendant_or_self" /\ select.test.kind = "Node"
  THEN <<"//">>
  ELSE Piece(AxisSpecifier_to_abbr_string(select.axis))
         \o NodeTest_fmt(select.test)

\* the operator an ExprNode is printed with
ExprSymbol(expr_t) ==
  CASE expr_t = "And" -> "and"
    [] expr_t = "Or" -> "or"
    [] expr_t = "Equals" -> "="
    [] expr_t = "GreaterThan" -> ">"
    [] expr_t = "Subtract" -> "-"

RECURSIVE Predicate_to_string(_)
RECURSIVE Predicate_to_abbr_string(_)
RECURSIVE to_some_string(_, _)

\* Display for FunctionCall: the arguments are always printed in full
FunctionCall_fmt(call_) ==
  <<call_.name, "(">>
    \o Concat([i \in 1..Len(call_.kids) |->
                 (IF i > 1 THEN <<",">> ELSE <<>>)
                   \o Predicate_to_string(call_.kids[i])])
    \o <<")">>

\* Display for Predicate (and for Terminal)
Predicate_to_string(p) ==
  CASE p.op = "Function" -> FunctionCall_fmt(p)
    [] p.op = "Number" -> <<p.name>>
    [] p.op = "Select" -> Select_fmt(p.sel)
    [] OTHER -> to_some_string(p, FALSE)

\* ToAbbrString for Predicate
Predicate_to_abbr_string(p) ==
  CASE p.op = "Function" -> FunctionCall_fmt(p)
    [] p.op = "Number" -> <<p.name>>
    [] p.op = "Select" -> Select_to_abbr_string(p.sel)
    [] OTHER -> to_some_string(p, TRUE)

\* ExprNode::to_some_string
to_some_string(e, abbr) ==
  LET left == e.kids[1]
      right == e.kids[2]
      full == (IF abbr THEN Predicate_to_abbr_string(left)
                       ELSE Predicate_to_string(left))
                \o <<ExprSymbol(e.op)>>
                \o (IF abbr THEN Predicate_to_abbr_string(right)
                            ELSE Predicate_to_string(right))
  IN IF e.op = "Equals" /\ abbr /\ left.op = "Function" /\ right.op = "Number"
     THEN IF left.name = "position" /\ left.kids = <<>>
          THEN <<right.name>>
          ELSE full
     ELSE full

\* Display for Step
Step_fmt(step) ==
  Select_fmt([axis |-> step.axis, test |-> step.test])
    \o Concat([i \in 1..Len(step.preds) |->
                 <<"[">> \o Predicate_to_string(step.preds[i]) \o <<"]">>])

\* ToAbbrString for Step
Step_to_abbr_string(step) ==
  Select_to_abbr_string([axis |-> step.axis, test |-> step.test])
    \o Concat([i \in 1..Len(step.preds) |->
                 <<"[">> \o Predicate_to_abbr_string(step.preds[i]) \o <<"]">>])

\* the operands: position(), last(), a number, attribute::type
Atoms ==
  {PredicateFunction("position"), PredicateFunction("last"),
   PredicateSelect("attribute", [kind |-> "Named", arg |-> <<"type">>])}
  \cup {PredicateNumber(n) : n \in 1..MaxNumber}

\* position() compared with an operand or with last() - n
PositionTests ==
  {PredicateExpr(o, PredicateFunction("position"), a) :
     o \in {"Equals", "GreaterThan"}, a \in Atoms}
  \cup {PredicateExpr("Equals", PredicateFunction("position"),
                      PredicateExpr("Subtract", PredicateFunction("last"),
                                    PredicateNumber(n))) : n \in 1..MaxNumber}

\* the predicates put on the step: operands, comparisons of two operands,
\* and two position tests joined with and / or
Predicates ==
  Atoms
  \cup PositionTests
  \cup {PredicateExpr(o, a, b) :
          o \in {"Equals", "GreaterThan"}, a \in Atoms, b \in Atoms}
  \cup {PredicateExpr(o, a, b) :
          o \in {"And", "Or"}, a \in PositionTests, b \in PositionTests}

NoRender == [op |-> "none", step |-> NewStep("child", [kind |-> "All", arg |-> <<>>]),
             out |-> <<>>]

InitRender ==
  /\ world = CHOOSE w \in Worlds : TRUE
  /\ pc = "idle"
  /\ call = NoRender
  /\ walk = NoWalk

\* step.append(predicate) on Step::child_elements("para"), then to_string()
CallToString ==
  /\ pc = "idle"
  /\ \E p \in Predicates :
       LET step == AppendPredicate(
                     NewStep("child", [kind |-> "Named", arg |-> <<"para">>]), p)
       IN call' = [op |-> "to_string", step |-> step, out |-> Step_fmt(step)]
  /\ pc' = "returned"
  /\ UNCHANGED <<world, walk>>

\* the same step, then to_abbr_string()
CallToAbbrString ==
  /\ pc = "idle"
  /\ \E p \in Predicates :
       LET step == AppendPredicate(
                     NewStep("child", [kind |-> "Named", arg |-> <<"para">>]), p)
       IN call' = [op |-> "to_abbr_string", step |-> step,
                   out |-> Step_to_abbr_string(step)]
  /\ pc' = "returned"
  /\ UNCHANGED <<world, walk>>

\* the client drops the string
ReturnRender ==
  /\ pc = "returned"
  /\ pc' = "idle"
  /\ call' = NoRender
  /\ UNCHANGED <<world, walk>>

NextRender == CallToString \/ CallToAbbrString \/ ReturnRender

SpecRender == InitRender /\ [][NextRender]_vars

(***************************************************************************)
(* The function table (model/function.rs): function_map builds a           *)
(* process-wide HashMap under a std::sync::Once and hands out clones.      *)
(* Threads call is_function, get_function and required_functions.  In      *)
(* this specification pc and call are per thread and walk holds the two    *)
(* statics and the closure's local map:                                    *)
(*   FUNCTIONS  the raw pointer: null, or the table it points to           *)
(*   INIT       the state of the Once: incomplete, running, complete       *)
(*   local      the HashMap the closure is collecting                      *)
(*   runs       how many times the closure has been entered                *)
(***************************************************************************)
\* threads that call into the table
MaxThreads == 2

Threads == 1..MaxThreads

\* the first entries of the vec! of required functions
all_functions == <<"last", "position", "count">>

\* the names the callers ask for: functions and one name not in the table
LookupNames == Range(all_functions) \cup {"nope"}

FunctionCalls == {"is_function", "get_function", "required_functions"}

\* 0 as *const HashMap<String, Function>
NullPointer == [null |-> TRUE, table |-> {}]

\* mem::transmute(Box::new(table))
PointerTo(table) == [null |-> FALSE, table |-> table]

NoFunctionCall == [op |-> "none", name |-> "", once |-> "none", out |-> <<>>]

\* what a public function makes of the cloned map
FunctionResult(op, name, table) ==
  CASE op = "is_function" -> <<name \in table>>
    [] op = "get_function" -> IF name \in table THEN <<"Some", name>> ELSE <<"None">>
    [] op = "required_functions" -> <<"Vec", table>>

\* (*FUNCTIONS).clone(): the table behind the pointer; a null pointer is
\* undefined behaviour, the read may give any map or end the process
Dereference(pointer) ==
  IF pointer.null
    THEN {<<"Ok", t>> : t \in SUBSET Range(all_functions)} \cup {<<"Fault", {}>>}
    ELSE {<<"Ok", pointer.table>>}

InitOnce ==
  /\ world = CHOOSE w \in Worlds : TRUE
  /\ pc = [t \in Threads |-> "idle"]
  /\ call = [t \in Threads |-> NoFunctionCall]
  /\ walk = [FUNCTIONS |-> NullPointer, INIT |-> "incomplete", local |-> {},
             runs |-> 0]

\* a thread calls one of the public functions, which calls function_map
CallFunction(t) ==
  /\ pc[t] = "idle"
  /\ \E op \in FunctionCalls, name \in LookupNames :
       call' = [call EXCEPT ![t] = [NoFunctionCall EXCEPT !.op = op,
                                                           !.name = name]]
  /\ pc' = [pc EXCEPT ![t] = "call_once"]
  /\ UNCHANGED <<world, walk>>

\* INIT.call_once finds the Once incomplete: this thread runs the closure
OnceRun(t) ==
  /\ pc[t] = "call_once"
  /\ walk.INIT = "incomplete"
  /\ walk' = [walk EXCEPT !.INIT = "running", !.runs = @ + 1, !.local = {}]
  /\ call' = [call EXCEPT ![t].once = "ran"]
  /\ pc' = [pc EXCEPT ![t] = "closure"]
  /\ UNCHANGED world

\* a call_once that does not wait for the running closure
OnceWait_through(t) ==
  /\ pc[t] = "call_once"
  /\ walk.INIT = "running"
  /\ call' = [call EXCEPT ![t].once = "waited"]
  /\ pc' = [pc EXCEPT ![t] = "dereference"]
  /\ UNCHANGED <<world, walk>>

\* INIT.call_once finds the closure running on another thread: it blocks
OnceWait(t) ==
  /\ pc[t] = "call_once"
  /\ walk.INIT = "running"
  /\ call' = [call EXCEPT ![t].once = "waited"]
  /\ pc' = [pc EXCEPT ![t] = "blocked"]
  /\ UNCHANGED <<world, walk>>

\* the Once is complete: a blocked thread is woken, a later caller passes
OncePass(t) ==
  /\ pc[t] \in {"call_once", "blocked"}
  /\ walk.INIT = "complete"
  /\ call' = [call EXCEPT ![t].once =
                IF pc[t] = "call_once" THEN "passed" ELSE @]
  /\ pc' = [pc EXCEPT ![t] = "dereference"]
  /\ UNCHANGED <<world, walk>>

\* the closure collects the next function of the vec into its HashMap
ClosureCollect(t) ==
  /\ pc[t] = "closure"
  /\ Cardinality(walk.local) < Len(all_functions)
  /\ walk' = [walk EXCEPT !.local =
                @ \cup {all_functions[Cardinality(walk.local) + 1]}]
  /\ UNCHANGED <<world, pc, call>>

\* FUNCTIONS = mem::transmute(Box::new(all_functions))
ClosurePublish(t) ==
  /\ pc[t] = "closure"
  /\ Cardinality(walk.local) = Len(all_functions)
  /\ walk' = [walk EXCEPT !.FUNCTIONS = PointerTo(walk.local)]
  /\ pc' = [pc EXCEPT ![t] = "published"]
  /\ UNCHANGED <<world, call>>

\* the closure has returned: call_once marks the Once complete
OnceComplete(t) ==
  /\ pc[t] = "published"
  /\ walk' = [walk EXCEPT !.INIT = "complete"]
  /\ pc' = [pc EXCEPT ![t] = "dereference"]
  /\ UNCHANGED <<world, call>>

\* (*FUNCTIONS).clone() and the public function's use of the clone
CloneTable(t) ==
  /\ pc[t] = "dereference"
  /\ \E read \in Dereference(walk.FUNCTIONS) :
       call' = [call EXCEPT ![t].out =
                  IF read[1] = "Fault" THEN <<"Fault">>
                  ELSE FunctionResult(call[t].op, call[t].name, read[2])]
  /\ pc' = [pc EXCEPT ![t] = "returned"]
  /\ UNCHANGED <<world, walk>>

\* the caller takes the result
ReturnFunction(t) ==
  /\ pc[t] = "returned"
  /\ pc' = [pc EXCEPT ![t] = "idle"]
  /\ call' = [call EXCEPT ![t] = NoFunctionCall]
  /\ UNCHANGED <<world, walk>>

NextOnce ==
  \E t \in Threads :
    \/ CallFunction(t)
    \/ OnceRun(t) \/ OnceWait(t) \/ OncePass(t)
    \/ ClosureCollect(t) \/ ClosurePublish(t) \/ OnceComplete(t)
    \/ CloneTable(t)
    \/ ReturnFunction(t)

SpecOnce == InitOnce /\ [][NextOnce]_vars

(***************************************************************************)
(* Reference notions the properties are stated with: document order as     *)
(* the depth-first pre-order of the tree, the descendant relation, and     *)
(* left-to-right chaining of steps.                                        *)
(***************************************************************************)
RECURSIVE PreOrder(_)
PreOrder(n) ==
  <<n>> \o Concat([i \in 1..Len(child_nodes(n)) |-> PreOrder(child_nodes(n)[i])])

\* the position of tree node n in document order
DocPos(n) == CHOOSE i \in 1..Len(PreOrder(1)) : PreOrder(1)[i] = n

\* a is a proper ancestor of n
IsAncestor(a, n) == n \in Nodes /\ IsAncestorIn(world.par, a, n)

InDocumentOrder(s) ==
  \A i, j \in 1..Len(s) : i < j => DocPos(s[i]) < DocPos(s[j])

HasDuplicate(s) == \E i, j \in 1..Len(s) : i # j /\ s[i] = s[j]

\* a call of op has returned
Returned(op) == pc = "returned" /\ call.op = op

\* an axis function has returned for the single context node n
ReturnedFor(op, n) == Returned(op) /\ call.ctx = <<n>>

RECURSIVE ChainedSteps(_, _)
\* filter(expand(.. filter(expand(seed, s1), s1) .., sn), sn)
ChainedSteps(seed, steps) ==
  IF steps = <<>> THEN seed
  ELSE ChainedSteps(
         filter_nodes(select_nodes(seed, Head(steps)), Head(steps)).nodes,
         Tail(steps))

\* the LocationPath a path string denotes
PathOf(s) ==
  CASE s = "child::para" ->
         [root |-> FALSE, steps |-> <<NewStep("child", [kind |-> "Named", arg |-> <<"para">>])>>]
    [] s = "child::*" ->
         [root |-> FALSE, steps |-> <<NewStep("child", [kind |-> "All", arg |-> <<>>])>>]
    [] s = "/" -> [root |-> TRUE, steps |-> <<>>]
    [] s = "child::*/child::para" ->
         [root |-> FALSE,
          steps |-> <<NewStep("child", [kind |-> "All", arg |-> <<>>]),
                      NewStep("child", [kind |-> "Named", arg |-> <<"para">>])>>]

(***************************************************************************)
(* Properties.                                                             *)
(***************************************************************************)

\* C1: evaluate_path chains its steps left to right: with two or more steps
\* the result is filter(expand(.. filter(expand(seed, s1), s1) .., sn), sn),
\* each step expanding the filtered NodeSet of the step before it, where
\* seed is the context NodeSet (its document expansion for an absolute path).
C1_StepsChainLeftToRight ==
  (Returned("evaluate_path") /\ Len(call.path.steps) >= 2 /\ call.out.tag = "Ok")
    => call.out.nodes =
         ChainedSteps(IF call.path.root THEN document(call.ctx) ELSE call.ctx,
                      call.path.steps)

\* C2: an absolute path starts at the owning document of each context node:
\* with no steps the result is the document expansion, and the axis of the
\* first step is expanded from that document expansion, not from the
\* context nodes.
C2_AbsolutePathStartsAtDocument ==
  (Returned("evaluate_path") /\ call.path.root /\ call.out.tag = "Ok")
    => /\ call.path.steps = <<>> => call.out.nodes = document(call.ctx)
       /\ Len(call.path.steps) = 1 =>
            call.out.nodes = ChainedSteps(document(call.ctx), call.path.steps)

\* C3: xpath1::evaluate_path with a syntactically valid path string returns
\* what evaluate::evaluate_path returns for the parsed path and the NodeSet
\* of the context nodes in order.
C3_ValidStringIsEvaluated ==
  (Returned("xpath1_evaluate_path") /\ GrammarAccepts(call.xpath))
    => /\ call.out.tag = "Ok"
       /\ call.out = evaluate_path(call.ctx, PathOf(call.xpath))

\* C4: evaluate_path returns Ok(NodeSet) or Err(EvaluationError) for every
\* context NodeSet and every path the model constructors build; it never
\* panics while filtering.
C4_EvaluateNeverPanics ==
  Returned("evaluate_path") => call.out.tag \in {"Ok", "Err"}

\* C5: on a tree with a parent or child cycle an ancestor, ancestor_or_self,
\* descendant or descendant_or_self walk that comes to a node a second time
\* has ended with Err(EvaluationError::CycleError).
C5_CycleIsDetected ==
  (\/ HasDuplicate(walk.result)
   \/ HasDuplicate([i \in 1..Len(walk.stack) |-> walk.stack[i].node]))
    => call.out = Err(<<"CycleError">>)

\* C6: every axis function applied to [n1, .., nk] returns the per-node
\* expansions f([n1]) ++ .. ++ f([nk]) concatenated in context order.
C6_AxisConcatenatesPerNode ==
  (pc = "returned" /\ call.op \in AxisNames)
    => call.out.nodes =
         Concat([i \in 1..Len(call.ctx) |-> Axis(call.op, <<call.ctx[i]>>)])

\* C7: for one context node, child, descendant, descendant_or_self,
\* following and following_sibling list their nodes in strictly increasing
\* document order (so no node twice).
C7_ForwardAxesInDocumentOrder ==
  (/\ pc = "returned"
   /\ call.op \in {"child", "descendant", "descendant_or_self", "following",
                   "following_sibling"}
   /\ Len(call.ctx) = 1)
    => InDocumentOrder(call.out.nodes)

\* C8: for one context node N, descendant([N]) holds every node reachable
\* from N by one or more child steps exactly once, not N, and no attribute
\* or namespace node; descendant_or_self([N]) is N followed by descendant([N]).
C8_DescendantComplete ==
  (pc = "returned" /\ Len(call.ctx) = 1
     /\ call.op \in {"descendant", "descendant_or_self"}) =>
    LET n == call.ctx[1]
    IN /\ call.op = "descendant" =>
            /\ Range(call.out.nodes) = {m \in Nodes : IsAncestor(n, m)}
            /\ ~HasDuplicate(call.out.nodes)
            /\ n \notin Range(call.out.nodes)
            /\ \A m \in Range(call.out.nodes) : node_type(m) # "Attribute"
       /\ call.op = "descendant_or_self" =>
            /\ call.out.nodes = <<n>> \o descendant(<<n>>)
            /\ Range(call.out.nodes) = {n} \cup {m \in Nodes : IsAncestor(n, m)}
            /\ ~HasDuplicate(call.out.nodes)

\* C8 witness: descendant returned for an element that has attributes,
\* children and grandchildren.
C8_Witness ==
  \E n \in Nodes :
    /\ ReturnedFor("descendant", n)
    /\ attributes(n) # <<>>
    /\ \E c, g \in Range(call.out.nodes) : parent_node(c) = n /\ parent_node(g) = c

\* C9: for one context node N, following([N]) holds all tree nodes after N
\* in document order that are not descendants of N, those under the
\* following siblings of N's ancestors included.
C9_FollowingComplete ==
  \A n \in Nodes :
    ReturnedFor("following", n) =>
      Range(call.out.nodes) =
        {m \in Nodes : DocPos(m) > DocPos(n) /\ ~IsAncestor(n, m)}

\* C10: for one context node N, preceding([N]) holds all tree nodes before N
\* in document order that are not ancestors of N, those under the preceding
\* siblings of N's ancestors included, and neither an ancestor of N nor N.
C10_PrecedingComplete ==
  \A n \in Nodes :
    ReturnedFor("preceding", n) =>
      Range(call.out.nodes) =
        {m \in Nodes : DocPos(m) < DocPos(n) /\ ~IsAncestor(m, n)}

\* C11: for one context node N, preceding([N]) is in reverse document
\* order: a node that comes later in document order comes earlier in the
\* result, also when a preceding sibling has a subtree of its own.
C11_PrecedingInReverseDocumentOrder ==
  (Returned("preceding") /\ Len(call.ctx) = 1 /\ call.ctx[1] \in Nodes)
    => InDocumentOrder(Reverse(call.out.nodes))

\* the proper ancestors of tree node n from its parent up to the root,
\* read off the document order: an ancestor comes before its descendants
AncestorChain(n) ==
  Reverse(SelectIn(PreOrder(1), {a \in Nodes : IsAncestor(a, n)}))

\* C12: for one context node N, ancestor([N]) is the parent chain of N from
\* the innermost to the outermost ancestor, one entry per proper ancestor,
\* ending with the root unless N is the root, and never holding N.
C12_AncestorIsParentChain ==
  (Returned("ancestor") /\ Len(call.ctx) = 1 /\ call.ctx[1] \in Nodes) =>
    LET n == call.ctx[1]
    IN /\ call.out.nodes = AncestorChain(n)
       /\ Len(call.out.nodes) = Cardinality({a \in Nodes : IsAncestor(a, n)})
       /\ n \notin Range(call.out.nodes)
       /\ n # 1 => call.out.nodes[Len(call.out.nodes)] = 1

\* C12 witness: ancestor returned for a node two levels below the document
\* node: parent, grandparent, document.
C12_Witness ==
  \E n \in Nodes :
    /\ ReturnedFor("ancestor", n)
    /\ node_type(1) = "Document"
    /\ Len(call.out.nodes) >= 3

\* C13: for every node N, ancestor_or_self([N]) is N followed by
\* ancestor([N]), so it is one longer than ancestor([N]).
C13_AncestorOrSelfIsSelfThenAncestors ==
  (Returned("ancestor_or_self") /\ Len(call.ctx) = 1) =>
    LET n == call.ctx[1]
    IN /\ call.out.nodes = <<n>> \o ancestor(<<n>>)
       /\ Len(call.out.nodes) = Len(ancestor(<<n>>)) + 1
       /\ n \in Nodes => call.out.nodes = <<n>> \o AncestorChain(n)

\* C13 witness: ancestor_or_self returned for a node that has ancestors.
C13_Witness ==
  \E n \in Nodes :
    /\ ReturnedFor("ancestor_or_self", n)
    /\ Len(call.out.nodes) >= 3

\* s1 and s2 are children of one parent and s1 comes first
EarlierSibling(s1, s2) ==
  /\ s1 \in Nodes /\ s2 \in Nodes
  /\ parent_node(s1) # None
  /\ parent_node(s1) = parent_node(s2)
  /\ DocPos(s1) < DocPos(s2)

\* C14: for children S1 before S2 of one parent, S2 is in
\* following_sibling([S1]) and S1 is in preceding_sibling([S2]), and S1 is
\* not in following_sibling([S2]) nor S2 in preceding_sibling([S1]).
C14_SiblingSymmetry ==
  (pc = "returned" /\ Len(call.ctx) = 1
     /\ call.op \in {"following_sibling", "preceding_sibling"}) =>
    \A s1, s2 \in Nodes :
      EarlierSibling(s1, s2) =>
        /\ ReturnedFor("following_sibling", s1) => s2 \in Range(call.out.nodes)
        /\ ReturnedFor("preceding_sibling", s2) => s1 \in Range(call.out.nodes)
        /\ ReturnedFor("following_sibling", s2) => s1 \notin Range(call.out.nodes)
        /\ ReturnedFor("preceding_sibling", s1) => s2 \notin Range(call.out.nodes)

\* C14 witness: following_sibling returned for the first of three siblings.
C14_Witness ==
  /\ Returned("following_sibling")
  /\ \E s1, s2, s3 \in Nodes :
       /\ call.ctx = <<s1>>
       /\ EarlierSibling(s1, s2) /\ EarlierSibling(s2, s3)
       /\ {s2, s3} \subseteq Range(call.out.nodes)

\* the attribute nodes of element n, namespace declarations included
AttributeNodesOf(n) == {a \in AttrNodes : n = AttrElement}

\* the attribute nodes of n whose name is (ns) or is not (~ns) a namespace
\* declaration
AttributeNodesOfKind(n, ns) ==
  {a \in AttributeNodesOf(n) : is_namespace_attribute(node_name(a)) = ns}

\* attribute or namespace has returned for a single Element
ReturnedForElement ==
  /\ pc = "returned"
  /\ call.op \in {"attribute", "namespace"}
  /\ Len(call.ctx) = 1
  /\ node_type(call.ctx[1]) = "Element"

C16_SelfNodeIsIdentity ==
  Returned("self_node") =>
    /\ call.out.tag = "Ok"
    /\ Len(call.out.nodes) = Len(call.ctx)
    /\ \A i \in 1..Len(call.ctx) : call.out.nodes[i] = call.ctx[i]
    /\ self_node(call.out.nodes) = call.out.nodes

\* C16 witness: self_node returned for a context that holds a node twice.
C16_Witness ==
  /\ Returned("self_node")
  /\ Len(call.ctx) = 2
  /\ call.ctx[1] = call.ctx[2]

\* C17: every axis function and document return the empty NodeSet for the
\* empty NodeSet, and evaluate_path returns Ok with an empty NodeSet for
\* every path when the context NodeSet is empty.
C17_EmptyInEmptyOut ==
  (/\ pc = "returned"
   /\ call.ctx = <<>>
   /\ call.op \in AxisNames \cup {"document", "evaluate_path"})
    => call.out = Ok(<<>>)

\* C17 witness: evaluate_path returned for the empty context and a path
\* whose step has a predicate.
C17_Witness ==
  /\ Returned("evaluate_path")
  /\ call.ctx = <<>>
  /\ call.path.steps # <<>>
  /\ call.path.steps[1].preds # <<>>

\* C18: a context node without a parent gives empty ancestor, parent,
\* preceding_sibling and following_sibling results, and a context node
\* that is no Element gives empty attribute and namespace results; none of
\* them is an error.
C18_ExpectedEmptyResults ==
  (pc = "returned" /\ Len(call.ctx) = 1) =>
    /\ (/\ call.op \in {"ancestor", "parent", "preceding_sibling",
                        "following_sibling"}
        /\ parent_node(call.ctx[1]) = None)
         => call.out = Ok(<<>>)
    /\ (/\ call.op \in {"attribute", "namespace"}
        /\ node_type(call.ctx[1]) # "Element")
         => call.out = Ok(<<>>)

\* C18 witness: parent returned for the root of a tree.
C18_Witness ==
  /\ ReturnedFor("parent", 1)
  /\ child_nodes(1) # <<>>

\* how often node m occurs in s
CountIn(s, m) == Cardinality({i \in 1..Len(s) : s[i] = m})

\* C19: axis results are not deduplicated across context nodes: a node
\* that the expansions of j context nodes produce occurs j times, so
\* parent(child([P])) holds P once per child of P and parent of k siblings
\* is their parent k times.
C19_NoDeduplication ==
  (pc = "returned" /\ call.op \in AxisNames) =>
    /\ LET each == Concat([i \in 1..Len(call.ctx) |->
                             Axis(call.op, <<call.ctx[i]>>)])
       IN /\ Len(call.out.nodes) = Len(each)
          /\ \A m \in Range(each) :
               CountIn(call.out.nodes, m) = CountIn(each, m)
    /\ call.op = "parent" =>
         \A P \in Nodes :
           (\A i \in 1..Len(call.ctx) : parent_node(call.ctx[i]) = P)
             => call.out.nodes = [i \in 1..Len(call.ctx) |-> P]

\* C19 witness: parent returned for child([P]) of a node P with two
\* children.
C19_Witness ==
  /\ Returned("parent")
  /\ \E P \in Nodes :
       /\ call.ctx = child(<<P>>)
       /\ Len(call.ctx) = 2
       /\ call.out.nodes = <<P, P>>

RECURSIVE IsSubSeq(_, _)
\* a is b with some entries left out
IsSubSeq(a, b) ==
  IF a = <<>> THEN TRUE
  ELSE IF b = <<>> THEN FALSE
  ELSE IF Head(a) = Head(b) THEN IsSubSeq(Tail(a), Tail(b))
  ELSE IsSubSeq(a, Tail(b))

\* C20: filter_nodes(S, step) returns the nodes of S that pass the step's
\* node test and every predicate of the step, in input order and
\* multiplicity: for a relative one-step path the result is Ok, holds only
\* nodes of the selected set that pass the node test, and all of them when
\* the step has no predicate.
C20_FilterKeepsPassingNodes ==
  (/\ Returned("evaluate_path")
   /\ ~call.path.root
   /\ Len(call.path.steps) = 1) =>
    LET step == call.path.steps[1]
        S == select_nodes(call.ctx, step)
        passing ==
          SelectIn(S, {n \in Range(S) :
                         NodeTestFilter_apply(PrincipalType(step.axis),
                                              step.test, n)})
    IN /\ call.out.tag = "Ok"
       /\ IsSubSeq(call.out.nodes, passing)
       /\ step.preds = <<>> => call.out.nodes = passing

\* evaluate_path has returned for a relative path of one step that has no
\* predicate and whose node test is of one of the kinds
ReturnedOneStep(kinds) ==
  /\ Returned("evaluate_path")
  /\ ~call.path.root
  /\ Len(call.path.steps) = 1
  /\ call.path.steps[1].preds = <<>>
  /\ call.path.steps[1].test.kind \in kinds

C22_TypeNodeTests ==
  ReturnedOneStep({"Comment", "Text", "ProcessingInstruction", "Node"}) =>
    LET step == call.path.steps[1]
        S == Axis(step.axis, call.ctx)
        kind == step.test.kind
        passing == {n \in Range(S) :
                      \/ kind = "Node"
                      \/ /\ kind # "Node"
                         /\ node_type(n) = kind
                         /\ step.test.arg # <<>> => target(n) = step.test.arg[1]}
    IN /\ call.out = Ok(SelectIn(S, passing))
       /\ kind = "Node" => call.out.nodes = S

\* C22 witness: attribute::node() returned with the attribute nodes of an
\* element.
C22_Witness ==
  /\ ReturnedOneStep({"Node"})
  /\ call.path.steps[1].axis = "attribute"
  /\ call.out.nodes # <<>>

\* C23: evaluate_path and every axis and filter operation are read-only:
\* no call changes a node's parent, children, sibling or attribute links,
\* and the context NodeSet and the LocationPath the caller handed in are
\* the same after the call while the result is a NodeSet of its own.
C23_ReadOnly ==
  [][/\ world' = world
     /\ pc' = "returned" =>
          /\ call'.op \in AxisNames \cup {"document"}
               => call'.out = Ok(Axis(call'.op, call'.ctx))
          /\ call'.op = "evaluate_path"
               => call'.out = evaluate_path(call'.ctx, call'.path)]_vars

\* C23 witness: a descendant call has returned nodes other than its
\* context nodes.
C23_Witness ==
  /\ Returned("descendant")
  /\ call.ctx # <<>>
  /\ call.out.nodes # <<>>
  /\ Range(call.out.nodes) \cap Range(call.ctx) = {}

\* C24: an absolute path evaluated against context nodes that have no
\* owning document gives Ok with an empty NodeSet, whatever its steps:
\* no error, and nothing selected relative to the context nodes.
C24_AbsolutePathWithoutDocument ==
  (/\ Returned("evaluate_path")
   /\ call.path.root
   /\ call.ctx # <<>>
   /\ \A i \in 1..Len(call.ctx) : owner_document(call.ctx[i]) = None)
    => call.out = Ok(<<>>)

\* p is exactly position() = n for a number n
IsPositionEqualsNumber(p) ==
  /\ p.op = "Equals"
  /\ p.kids[1] = PredicateFunction("position")
  /\ p.kids[2].op = "Number"

RECURSIVE InFull(_, _)
\* predicate p with every operator and both its operands written out; a
\* select terminal is written as the mode (abbr) writes a select
InFull(p, abbr) ==
  CASE p.op = "Function" -> Predicate_to_string(p)
    [] p.op = "Number" -> <<p.name>>
    [] p.op = "Select" -> IF abbr THEN Select_to_abbr_string(p.sel)
                                  ELSE Select_fmt(p.sel)
    [] OTHER -> InFull(p.kids[1], abbr) \o <<ExprSymbol(p.op)>>
                  \o InFull(p.kids[2], abbr)

\* C25: to_abbr_string renders a predicate of the exact shape
\* position() = n as [n] and to_string renders it as [position() = n];
\* every other predicate is rendered in full in both modes, with each
\* operator and both its operands.
C25_AbbreviatesExactShapeOnly ==
  (pc = "returned" /\ call.op \in {"to_string", "to_abbr_string"}) =>
    LET p == call.step.preds[1]
        abbr == call.op = "to_abbr_string"
        select == IF abbr THEN <<"para">> ELSE <<"child::", "para">>
    IN call.out =
         select \o <<"[">>
           \o (IF abbr /\ IsPositionEqualsNumber(p)
               THEN <<p.kids[2].name>>
               ELSE InFull(p, abbr))
           \o <<"]">>

\* C26: on every finite acyclic tree every axis expansion, the recursive
\* descendant, descendant_or_self, following and preceding included, and
\* evaluate_path over a finite path terminate: a started call returns.
C26_Terminates == (pc = "walking") ~> (pc = "returned")

\* C26 witness: preceding has returned for a node whose preceding sibling
\* has a child, after its recursion went two calls deep.
C26_Witness ==
  /\ Returned("preceding")
  /\ Len(call.out.nodes) >= 2
  /\ \E i \in 1..Len(call.out.nodes) :
       parent_node(call.out.nodes[i]) \in Range(call.out.nodes)

\* C27: the function table is built exactly once.  Under every interleaving
\* of threads calling is_function, get_function and required_functions the
\* closure of call_once is entered at most once; a thread that reads the
\* table does so after the pointer is set to the complete table and the
\* Once is complete; every call returns what the complete table gives.
C27_TableBuiltOnce ==
  /\ walk.runs <= 1
  /\ \A t \in Threads :
       pc[t] \in {"dereference", "returned"} =>
         /\ walk.runs = 1
         /\ walk.INIT = "complete"
         /\ walk.FUNCTIONS = PointerTo(Range(all_functions))
  /\ \A t \in Threads :
       pc[t] = "returned" =>
         call[t].out = FunctionResult(call[t].op, call[t].name,
                                      Range(all_functions))

\* C27 witness: two first calls at the same time, one ran the closure and
\* the other blocked on the Once, and both have returned from different
\* functions of the table.
C27_Witness ==
  \E t, u \in Threads :
    /\ pc[t] = "returned" /\ pc[u] = "returned"
    /\ call[t].once = "ran" /\ call[u].once = "waited"
    /\ call[t].op = "is_function" /\ call[u].op = "required_functions"
    /\ call[u].out = <<"Vec", Range(all_functions)>>

\* C28: on the namespace axis the node test goes by the namespace node
\* type: a step namespace::* keeps every namespace-declaration node the
\* axis expansion produced for the context, and namespace::name those of
\* that name.
C28_NamespaceAxisKeepsNamespaceNodes ==
  (ReturnedOneStep({"All", "Named"})
     /\ call.path.steps[1].axis = "namespace"
     /\ call.path.steps[1].test.arg # <<"">>) =>
    LET step == call.path.steps[1]
        S == namespace(call.ctx)
    IN call.out =
         Ok(SelectIn(S, {n \in Range(S) :
                           step.test.kind = "Named" =>
                             node_name(n) = step.test.arg[1]}))

\* C29: for a node N with parent P, preceding_sibling([N]) ++ [N] ++
\* following_sibling([N]) is child([P]): the children before N and those
\* after N, each in document order, and N in neither.
C29_SiblingsPartitionChildren ==
  (/\ pc = "returned"
   /\ call.op \in {"preceding_sibling", "following_sibling"}
   /\ Len(call.ctx) = 1
   /\ parent_node(call.ctx[1]) # None) =>
    LET N == call.ctx[1]
        P == parent_node(N)
        before == IF call.op = "preceding_sibling" THEN call.out.nodes
                  ELSE preceding_sibling(<<N>>)
        after == IF call.op = "following_sibling" THEN call.out.nodes
                 ELSE following_sibling(<<N>>)
    IN /\ call.out.tag = "Ok"
       /\ before \o <<N>> \o after = child(<<P>>)
       /\ N \notin Range(call.out.nodes)
       /\ InDocumentOrder(call.out.nodes)

\* C29 witness: preceding_sibling returned for the middle one of three
\* children, with a sibling before it and a sibling after it.
C29_Witness ==
  /\ Returned("preceding_sibling")
  /\ Len(call.ctx) = 1
  /\ parent_node(call.ctx[1]) # None
  /\ call.out.nodes # <<>>
  /\ following_sibling(call.ctx) # <<>>

\* C30: parse failures come back before any evaluation: for the empty
\* string xpath1::evaluate_path returns Err(Error::Parse(EmptyString)), every
\* error of read_str comes back as Error::Parse of that error, and the
\* result holds no node and no outcome of evaluate::evaluate_path.
C30_ParseFailureBeforeEvaluation ==
  (Returned("xpath1_evaluate_path") /\ read_str(call.xpath).tag = "Err") =>
    /\ call.out = Err(<<"Parse">> \o read_str(call.xpath).err)
    /\ call.xpath = "" => call.out = Err(<<"Parse", "EmptyString">>)
    /\ call.xpath = "]" => call.out = Err(<<"Parse", "Parser">>)
    /\ call.out.nodes = <<>>
    /\ call.out.tag # "Panic"

\* C30 witness: the empty string and an element with children as context:
\* the call has returned the parse error.
C30_Witness ==
  /\ Returned("xpath1_evaluate_path")
  /\ call.xpath = ""
  /\ Len(call.ctx) = 1
  /\ child(call.ctx) # <<>>
  /\ call.out.tag = "Err"

====
